---- MODULE Spec2Model ----
(***************************************************************************)
(* Model of about_tool/cmd.py: the `about` command group (cli), its        *)
(* subcommands inventory, gen, attrib, export, fetch, redist, and the      *)
(* log_errors helper.                                                      *)
(*                                                                         *)
(* Paths are sequences of one-character strings, so that endswith, lower,  *)
(* dirname and join are computed as the code computes them.  An Error is   *)
(* the pair <<severity, message>>.  A printed or logged line is a tuple of *)
(* strings.  The file system maps a path to an inode and an inode to its   *)
(* lines, so that a logging.FileHandler keeps writing to the file it       *)
(* opened after os.remove unlinked its name.                               *)
(***************************************************************************)
EXTENDS Integers, Sequences, FiniteSets, TLC

VARIABLES pc, no_stdout, verbosity_num, stdout, fs, inodes, handlers, cmd, calls

vars == <<pc, no_stdout, verbosity_num, stdout, fs, inodes, handlers, cmd, calls>>

(* ---------------------------------------------------------------- bounds *)
MaxErrs == 2
MaxAbouts == 1
MaxCalls == 2

(* ------------------------------------------------------------ severities *)
CRITICAL == 50
ERROR == 40
WARNING == 30
INFO == 20
NOTSET == 0

Severities == {CRITICAL, ERROR, WARNING, INFO, NOTSET}

severities ==
  [s \in Severities |->
     CASE s = CRITICAL -> "CRITICAL"
       [] s = ERROR -> "ERROR"
       [] s = WARNING -> "WARNING"
       [] s = INFO -> "INFO"
       [] OTHER -> "NOTSET"]

(* ----------------------------------------------------------------- paths *)
EndsWith(s, suffix) ==
  /\ Len(s) >= Len(suffix)
  /\ SubSeq(s, Len(s) - Len(suffix) + 1, Len(s)) = suffix

UpperToLower ==
  [c \in {"Z", "I", "P", "C", "S", "V"} |->
     CASE c = "Z" -> "z"
       [] c = "I" -> "i"
       [] c = "P" -> "p"
       [] c = "C" -> "c"
       [] c = "S" -> "s"
       [] OTHER -> "v"]

lower(s) ==
  [i \in 1..Len(s) |-> IF s[i] \in DOMAIN UpperToLower THEN UpperToLower[s[i]] ELSE s[i]]

\* index of the last "/" of p, 0 when there is none (str.rfind + 1)
LastSlash(p) ==
  LET idx == {i \in 1..Len(p) : p[i] = "/"}
  IN IF idx = {} THEN 0 ELSE CHOOSE i \in idx : \A j \in idx : j <= i

RECURSIVE RStripSlash(_)
RStripSlash(p) ==
  IF p # <<>> /\ p[Len(p)] = "/" THEN RStripSlash(SubSeq(p, 1, Len(p) - 1)) ELSE p

\* os.path.dirname
dirname(p) ==
  LET head == SubSeq(p, 1, LastSlash(p))
  IN IF head # <<>> /\ \E i \in 1..Len(head) : head[i] # "/"
     THEN RStripSlash(head)
     ELSE head

\* os.path.join(a, b) for a relative b
join(a, b) ==
  IF a = <<>> \/ a[Len(a)] = "/" THEN a \o b ELSE a \o <<"/">> \o b

to_posix(p) ==
  [i \in 1..Len(p) |-> IF p[i] = "\\" THEN "/" ELSE p[i]]

LOG_FILENAME == <<"e", "r", "r", "o", "r", ".", "l", "o", "g">>

DOT_CSV == <<".", "c", "s", "v">>
DOT_JSON == <<".", "j", "s", "o", "n">>
DOT_ZIP == <<".", "z", "i", "p">>

(* ----------------------------------------------------------- file system *)
\* a world is [fs: path -> inode, inodes: sequence of file contents,
\*             handlers: the inodes of the FileHandlers of file_logger]
World == [fs |-> fs, inodes |-> inodes, handlers |-> handlers]

\* the directories that exist; the program creates and removes none
Directories == {<<"/">>, <<"/", "d">>, <<"/", "e">>, <<"/", "t">>}

\* os.path.exists
exists(F, path) == path \in DOMAIN F.fs \/ path \in Directories

\* os.remove(path): the name goes, the inode stays for whoever holds it open
Remove(F, path) ==
  [F EXCEPT !.fs = [p \in (DOMAIN F.fs) \ {path} |-> F.fs[p]]]

\* open(path, 'a'): creates an empty file when there is none
OpenAppend(F, path) ==
  IF path \in DOMAIN F.fs THEN F
  ELSE [F EXCEPT !.inodes = Append(F.inodes, <<>>),
                 !.fs = F.fs @@ (path :> (Len(F.inodes) + 1))]

\* open(path, 'w') and write content
WriteFile(F, path, content) ==
  IF path \in DOMAIN F.fs
  THEN [F EXCEPT !.inodes[F.fs[path]] = content]
  ELSE [F EXCEPT !.inodes = Append(F.inodes, content),
                 !.fs = F.fs @@ (path :> (Len(F.inodes) + 1))]

\* logging.FileHandler(log_path) followed by file_logger.addHandler
AddFileHandler(F, log_path) ==
  LET G == OpenAppend(F, log_path)
  IN [G EXCEPT !.handlers = Append(G.handlers, G.fs[log_path])]

\* the effective level of file_logger: no level is set on it, so it is the
\* root logger's, WARNING
getEffectiveLevel == WARNING

\* Logger.isEnabledFor with manager.disable = 0
isEnabledFor(severity) ==
  /\ ~(0 >= severity)
  /\ severity >= getEffectiveLevel

\* one record handed to every handler of file_logger, in handler order
RECURSIVE callHandlers(_, _, _)
callHandlers(ino, hs, line) ==
  IF hs = <<>> THEN ino
  ELSE callHandlers([ino EXCEPT ![Head(hs)] = Append(@, line)], Tail(hs), line)

\* file_logger.log(severity, line)
FileLog(F, severity, line) ==
  IF isEnabledFor(severity)
  THEN [F EXCEPT !.inodes = callHandlers(F.inodes, F.handlers, line)]
  ELSE F

(* ------------------------------------------------------------ log_errors *)
\* msg_format % locals()
msg_format(e) == <<severities[e[1]], ": ", e[2]>>

Reported(errors, level) == SelectSeq(errors, LAMBDA e : e[1] >= level)

\* the lines log_errors prints
LogPrinted(errors, level, quiet) ==
  IF quiet THEN <<>>
  ELSE LET r == Reported(errors, level)
       IN [i \in 1..Len(r) |-> msg_format(r[i])]

RECURSIVE LogLoop(_, _, _)
LogLoop(F, errors, level) ==
  IF errors = <<>> THEN F
  ELSE LET e == Head(errors)
       IN LogLoop(IF e[1] >= level THEN FileLog(F, e[1], msg_format(e)) ELSE F,
                  Tail(errors), level)

\* the file-system effect of log_errors; base_dir = <<>> is the falsy default
LogFiles(F, errors, base_dir, level) ==
  IF base_dir = <<>> THEN F
  ELSE LET log_path == join(to_posix(base_dir), LOG_FILENAME)
           F1 == IF exists(F, log_path) THEN Remove(F, log_path) ELSE F
           F2 == AddFileHandler(F1, log_path)
       IN LogLoop(F2, errors, level)

(* ------------------------------------------------------- inputs, records *)
P_d == <<"/", "d">>
P_e == <<"/", "e">>
P_tmp == <<"/", "t">>

OUT_CSV == <<"/", "d", "/", "o", ".", "c", "s", "v">>
OUT_JSON == <<"/", "d", "/", "o", ".", "j", "s", "o", "n">>
OUT_NODOT == <<"/", "d", "/", "o", "c", "s", "v">>
OUT_NODIR == <<"/", "x", "/", "o", ".", "c", "s", "v">>
OLD_LOG == <<"/", "d", "/", "e", "r", "r", "o", "r", ".", "l", "o", "g">>

LOC_DIR == <<"/", "a">>
LOC_ZIP == <<"/", "a", ".", "z", "i", "p">>
LOC_UZIP == <<"/", "a", ".", "Z", "I", "P">>
LOC_NOZIP == <<"/", "a", "z", "i", "p">>

IN_CSV == <<"/", "i", ".", "c", "s", "v">>
IN_JSON == <<"/", "i", ".", "j", "s", "o", "n">>
IN_UCSV == <<"/", "i", ".", "C", "S", "V">>
IN_NODOT == <<"/", "i", "j", "s", "o", "n">>

InventoryOutputs == {OUT_CSV, OUT_JSON, OUT_NODOT, OUT_NODIR}
AttribOutputs == {OUT_CSV, <<"/", "e", "/", "o">>}
Locations == {LOC_DIR, LOC_ZIP, LOC_UZIP, LOC_NOZIP}
GenLocations == {IN_CSV, IN_JSON, IN_UCSV, IN_NODOT}
GenOutputs == {P_d, P_e}
Formats == {"csv", "json", "xml"}
Verbosities == {INFO, WARNING, CRITICAL}

\* what was in a file before the program ran
OLD == <<<<"old">>>>

SeqsUpTo(S, n) == UNION {[1..k -> S] : k \in 0..n}

\* the error lists a collaborator may return; the message names the collaborator
ErrorLists(message) == SeqsUpTo({<<s, message>> : s \in Severities}, MaxErrs)
ShortErrorLists(message) ==
  {<<>>} \cup {<<e>> : e \in {<<s, message>> : s \in Severities}}
AboutLists == SeqsUpTo({"about"}, MaxAbouts)

\* what the collaborators may return
ExtractedLocations == {<<"/", "t", "/", "a">>}
LicenseLocations == {<<>>, P_tmp}
LicLocDicts == {<<>>, <<"lic">>}

NoCmd ==
  [name |-> "", overwrite |-> FALSE, format |-> "", location |-> <<>>,
   output |-> <<>>, license_text_location |-> <<>>]

\* one entry of the trace of calls made by the running command
Call(fn, path, ret, errors, abouts, level, at) ==
  [fn |-> fn, path |-> path, ret |-> ret, errors |-> errors, abouts |-> abouts,
   level |-> level, at |-> at]

\* click.echo(text)
echo(text) == <<text>>

RECURSIVE MakeFiles(_, _)
MakeFiles(F, paths) ==
  IF paths = <<>> THEN F ELSE MakeFiles(WriteFile(F, Head(paths), OLD), Tail(paths))

EmptyWorld == [fs |-> <<>>, inodes |-> <<>>, handlers |-> <<>>]

InitFileLists == {<<>>, <<OUT_CSV, OLD_LOG>>, <<OUT_CSV, OUT_JSON, OUT_NODOT>>}

(* ------------------------------------------------------------------ init *)
Init ==
  /\ pc = "start"
  /\ no_stdout = FALSE
  /\ verbosity_num = 30
  /\ stdout = <<>>
  /\ cmd = NoCmd
  /\ calls = <<>>
  /\ handlers = <<>>
  /\ \E files \in InitFileLists :
       LET F == MakeFiles(EmptyWorld, files)
       IN fs = F.fs /\ inodes = F.inodes

\* the cli group callback
cli(verbose, quiet) ==
  /\ pc = "start"
  /\ no_stdout' = quiet
  /\ verbosity_num' = verbose
  /\ pc' = "parsed"
  /\ UNCHANGED <<stdout, fs, inodes, handlers, cmd, calls>>

SetWorld(F) ==
  /\ fs' = F.fs
  /\ inodes' = F.inodes
  /\ handlers' = F.handlers

(* ------------------------------------------------------------- inventory *)
formats == {"csv", "json"}

\* the overwrite flag read the wrong way round
OutputTaken_Inverted(F, overwrite, output) == exists(F, output) /\ overwrite

\* line 113
OutputTaken(F, overwrite, output) == exists(F, output) /\ ~overwrite

\* line 118
NoOutputDir(F, output) == ~exists(F, dirname(output))

\* line 122
UnsupportedFormat(format) == format \notin formats

\* the extension compared without its dot
NotCsvName_NoDot(format, output) ==
  format # "json" /\ ~EndsWith(output, <<"c", "s", "v">>)

\* lines 126-127
NotCsvName(format, output) == format # "json" /\ ~EndsWith(output, DOT_CSV)

\* the extension compared without lowering the location
IsZip_CaseSensitive(location) == EndsWith(location, DOT_ZIP)

\* lines 135 and 259
IsZip(location) == EndsWith(lower(location), DOT_ZIP)

RUNNING == echo("Running about-code-tool version")

NO_ABOUT == <<ERROR, "No ABOUT files is found. Generation halted.">>

\* the location handed to collect_inventory and the calls made to get there
Extracted(location, zret) == IF IsZip(location) THEN zret ELSE location

ExtractCalls(location, zret) ==
  IF IsZip(location)
  THEN <<Call("extract_zip", location, zret, <<>>, <<>>, 0, 0)>>
  ELSE <<>>

\* model.to_json / model.to_csv write the abouts to output
Saved(format, abouts) == [i \in 1..Len(abouts) |-> <<format, abouts[i]>>]

inventory(overwrite, format, location, output) ==
  /\ pc = "parsed"
  /\ pc' = "done"
  /\ cmd' = [NoCmd EXCEPT !.name = "inventory", !.overwrite = overwrite,
                          !.format = format, !.location = location,
                          !.output = output]
  /\ UNCHANGED <<no_stdout, verbosity_num>>
  /\ IF OutputTaken(World, overwrite, output)
     THEN /\ stdout' = stdout \o <<RUNNING, echo("ERROR: <output> file already exists."),
                                   echo("Select a different file name or use the --overwrite option after the inventory."),
                                   echo("")>>
          /\ UNCHANGED <<fs, inodes, handlers, calls>>
     ELSE IF NoOutputDir(World, output)
     THEN /\ stdout' = stdout \o <<RUNNING, echo("ERROR: Path to the <output> does not exists. Please check and correct the <output>."),
                                   echo("")>>
          /\ UNCHANGED <<fs, inodes, handlers, calls>>
     ELSE IF UnsupportedFormat(format)
     THEN /\ stdout' = stdout \o <<RUNNING, <<"ERROR: Output format: ", format, " is not supported.">>,
                                   echo("")>>
          /\ UNCHANGED <<fs, inodes, handlers, calls>>
     ELSE IF NotCsvName(format, output)
     THEN /\ stdout' = stdout \o <<RUNNING, echo("ERROR: <output> must be a CSV file ending with .csv"),
                                   echo("")>>
          /\ UNCHANGED <<fs, inodes, handlers, calls>>
     ELSE \E zret \in ExtractedLocations, cerrors \in ErrorLists("collect"),
             cabouts \in AboutLists :
          LET out1 == stdout \o <<RUNNING, echo("Collecting the inventory")>>
              loc1 == Extracted(location, zret)
              calls1 == calls \o ExtractCalls(location, zret)
                          \o <<Call("collect_inventory", loc1, <<>>, cerrors, cabouts, 0, 0)>>
              errors == IF cabouts = <<>> THEN <<NO_ABOUT>> ELSE cerrors
              calls2 == IF cabouts = <<>> THEN calls1
                        ELSE Append(calls1,
                                    Call(IF format = "json" THEN "to_json" ELSE "to_csv",
                                         output, <<>>, <<>>, cabouts, 0, 0))
              F1 == IF cabouts = <<>> THEN World
                    ELSE WriteFile(World, output, Saved(format, cabouts))
              base_dir == dirname(output)
          IN /\ stdout' = out1 \o LogPrinted(errors, verbosity_num, no_stdout)
             /\ SetWorld(LogFiles(F1, errors, base_dir, verbosity_num))
             /\ calls' = Append(calls2,
                                Call("log_errors", base_dir, <<>>, errors, <<>>,
                                     verbosity_num, Len(out1)))

(* ------------------------------------------------------------------- gen *)
\* the extensions compared on the lowered location
BadInput_AnyCase(location) ==
  ~EndsWith(lower(location), DOT_CSV) /\ ~EndsWith(lower(location), DOT_JSON)

\* line 188
BadInput(location) == ~EndsWith(location, DOT_CSV) /\ ~EndsWith(location, DOT_JSON)

\* lines 199-205
MergeErrors(errors, lic_file_err) ==
  IF lic_file_err # <<>> THEN errors \o lic_file_err ELSE errors

\* INFO counted as well
CountErrors_WithInfo(errors) == Len(SelectSeq(errors, LAMBDA e : e[1] >= 20))

\* lines 208-213
CountErrors(errors) == Len(SelectSeq(errors, LAMBDA e : e[1] > 20))

\* line 214
Summary(lea, lee) ==
  <<"Generated ", ToString(lea), " ABOUT files with ", ToString(lee),
    " errors and/or warning">>

ABOUT_FILE == <<"c", ".", "A", "B", "O", "U", "T">>
LICENSE_FILE == <<"c", ".", "L", "I", "C", "E", "N", "S", "E">>

\* gen.generate writes the ABOUT files under output
Generated(F, output, abouts) ==
  IF abouts = <<>> THEN F
  ELSE WriteFile(F, join(output, ABOUT_FILE), [i \in 1..Len(abouts) |-> <<abouts[i]>>])

\* util.copy_files copies the license files under output
Copied(F, output, lic_loc_dict) ==
  WriteFile(F, join(output, LICENSE_FILE), [i \in 1..Len(lic_loc_dict) |-> <<lic_loc_dict[i]>>])

gen(license_text_location, location, output) ==
  /\ pc = "parsed"
  /\ pc' = "done"
  /\ cmd' = [NoCmd EXCEPT !.name = "gen", !.location = location, !.output = output,
                          !.license_text_location = license_text_location]
  /\ UNCHANGED <<no_stdout, verbosity_num>>
  /\ IF BadInput(location)
     THEN /\ stdout' = stdout \o <<RUNNING, echo("ERROR: Input file. Only .csv and .json files are supported."),
                                   echo("")>>
          /\ UNCHANGED <<fs, inodes, handlers, calls>>
     ELSE \E gerrors \in ErrorLists("generate"), gabouts \in AboutLists,
             lic_loc_dict \in IF license_text_location # <<>> THEN LicLocDicts ELSE {<<>>},
             lic_file_err \in IF license_text_location # <<>>
                              THEN ShortErrorLists("license") ELSE {<<>>} :
          LET calls1 == Append(calls, Call("generate", location, output, gerrors, gabouts, 0, 0))
              F1 == Generated(World, output, gabouts)
              verify == license_text_location # <<>>
              calls2 == IF verify
                        THEN Append(calls1, Call("verify_license_files", license_text_location,
                                                 <<>>, lic_file_err, gabouts, 0, 0))
                        ELSE calls1
              copy == verify /\ lic_loc_dict # <<>>
              calls3 == IF copy
                        THEN Append(calls2, Call("copy_files", output, <<>>, <<>>, <<>>, 0, 0))
                        ELSE calls2
              F2 == IF copy THEN Copied(F1, output, lic_loc_dict) ELSE F1
              errors == IF verify THEN MergeErrors(gerrors, lic_file_err) ELSE gerrors
              lea == Len(gabouts)
              lee == CountErrors(errors)
              out1 == stdout \o <<RUNNING, echo("Generating ABOUT files..."), Summary(lea, lee)>>
          IN /\ stdout' = out1 \o LogPrinted(errors, NOTSET, no_stdout)
             /\ SetWorld(LogFiles(F2, errors, output, NOTSET))
             /\ calls' = Append(calls3, Call("log_errors", output, <<>>, errors, <<>>,
                                             NOTSET, Len(out1)))

(* ---------------------------------------------------------------- attrib *)
ATTRIBUTION == <<<<"attribution">>>>

attrib(location, output) ==
  /\ pc = "parsed"
  /\ pc' = "done"
  /\ cmd' = [NoCmd EXCEPT !.name = "attrib", !.location = location, !.output = output]
  /\ UNCHANGED <<no_stdout, verbosity_num>>
  /\ \E zret \in ExtractedLocations, cerrors \in ShortErrorLists("collect"),
        cabouts \in AboutLists, no_match_errors \in ErrorLists("no match") :
     LET out1 == stdout \o <<RUNNING, echo("Generating attribution...")>>
         loc1 == Extracted(location, zret)
         calls1 == calls \o ExtractCalls(location, zret)
                     \o <<Call("collect_inventory", loc1, <<>>, cerrors, cabouts, 0, 0),
                          Call("generate_and_save", output, <<>>, no_match_errors, cabouts, 0, 0)>>
         F1 == WriteFile(World, output, ATTRIBUTION)
         base_dir == dirname(output)
     IN /\ stdout' = out1 \o LogPrinted(no_match_errors, NOTSET, no_stdout)
                          \o <<echo("Finished.")>>
        /\ SetWorld(LogFiles(F1, no_match_errors, base_dir, NOTSET))
        /\ calls' = Append(calls1, Call("log_errors", base_dir, <<>>, no_match_errors, <<>>,
                                        NOTSET, Len(out1)))

(* ----------------------------------------------------------------- stubs *)
export ==
  /\ pc = "parsed"
  /\ pc' = "done"
  /\ cmd' = [NoCmd EXCEPT !.name = "export"]
  /\ stdout' = stdout \o <<RUNNING, echo("Exporting zip archive...")>>
  /\ UNCHANGED <<no_stdout, verbosity_num, fs, inodes, handlers, calls>>

\* fetch(location) is registered without any click.argument: click calls it
\* with no argument and the call raises TypeError before the body runs
fetch ==
  /\ pc = "parsed"
  /\ pc' = "raised"
  /\ cmd' = [NoCmd EXCEPT !.name = "fetch"]
  /\ UNCHANGED <<no_stdout, verbosity_num, stdout, fs, inodes, handlers, calls>>

\* redist(input_dir, output, ...) likewise
redist ==
  /\ pc = "parsed"
  /\ pc' = "raised"
  /\ cmd' = [NoCmd EXCEPT !.name = "redist"]
  /\ UNCHANGED <<no_stdout, verbosity_num, stdout, fs, inodes, handlers, calls>>

(* --------------------------------------------------------- specification *)

Cli == \E verbose \in Verbosities, quiet \in BOOLEAN : cli(verbose, quiet)

Inventory ==
  /\ pc = "parsed"
  /\ \E overwrite \in BOOLEAN, format \in Formats, location \in Locations,
        output \in InventoryOutputs :
       inventory(overwrite, format, location, output)

Gen ==
  /\ pc = "parsed"
  /\ \E license_text_location \in LicenseLocations, location \in GenLocations,
        output \in GenOutputs :
       gen(license_text_location, location, output)

Attrib ==
  /\ pc = "parsed"
  /\ \E location \in Locations, output \in AttribOutputs : attrib(location, output)

Next == Cli \/ Inventory \/ Gen \/ Attrib \/ export \/ fetch \/ redist

Spec == Init /\ [][Next]_vars

(* ------------------------------------- log_errors called as a library *)
InitLog ==
  /\ pc = "lib"
  /\ no_stdout \in BOOLEAN
  /\ verbosity_num = 30
  /\ stdout = <<>>
  /\ cmd = NoCmd
  /\ calls = <<>>
  /\ handlers = <<>>
  /\ LET F == MakeFiles(EmptyWorld, <<OLD_LOG>>)
     IN fs = F.fs /\ inodes = F.inodes

log_errors(errors, base_dir, level) ==
  /\ pc = "lib"
  /\ Len(calls) < MaxCalls
  /\ stdout' = stdout \o LogPrinted(errors, level, no_stdout)
  /\ SetWorld(LogFiles(World, errors, base_dir, level))
  /\ calls' = Append(calls, Call("log_errors", base_dir, <<>>, errors, <<>>, level, Len(stdout)))
  /\ UNCHANGED <<pc, no_stdout, verbosity_num, cmd>>

NextLog ==
  /\ Len(calls) < MaxCalls
  /\ \E errors \in ErrorLists("m"), base_dir \in {<<>>, P_d, P_e}, level \in Severities :
    log_errors(errors, base_dir, level)

SpecLog == InitLog /\ [][NextLog]_vars

(* ---------------------------------------------------------------- claims *)
Range(q) == {q[i] : i \in DOMAIN q}

CallsOf(fn) == {i \in DOMAIN calls : calls[i].fn = fn}

Format(errors) == [i \in 1..Len(errors) |-> <<severities[errors[i][1]], ": ", errors[i][2]>>]

AtOrAbove(errors, level) == SelectSeq(errors, LAMBDA e : ~(e[1] < level))

\* what a call printed: stdout from the position the call started at
PrintedSince(at) == SubSeq(stdout, at + 1, Len(stdout))

LogOf(dir) == dir \o <<"/">> \o LOG_FILENAME

InventoryErrorLines ==
  {echo("ERROR: <output> file already exists."),
   echo("ERROR: Path to the <output> does not exists. Please check and correct the <output>."),
   echo("ERROR: <output> must be a CSV file ending with .csv")}
    \cup {<<"ERROR: Output format: ", f, " is not supported.">> : f \in Formats}

GenErrorLine == echo("ERROR: Input file. Only .csv and .json files are supported.")

\* the step printed one of the lines of L and did nothing else
OnlyPrinted(L) ==
  /\ \E i \in (Len(stdout) + 1)..Len(stdout') : stdout'[i] \in L
  /\ SubSeq(stdout', 1, Len(stdout)) = stdout
  /\ calls' = calls
  /\ fs' = fs
  /\ inodes' = inodes
  /\ handlers' = handlers

\* C1: log_errors with a base_dir and quiet off prints, and writes to
\* base_dir/error.log, exactly the errors with severity >= level, in input order.
C1_PrintsAndLogsAtOrAboveLevel ==
  (pc = "lib" /\ calls # <<>> /\ ~no_stdout /\ calls[Len(calls)].path # <<>>) =>
    LET c == calls[Len(calls)]
        expected == Format(AtOrAbove(c.errors, c.level))
    IN /\ PrintedSince(c.at) = expected
       /\ LogOf(c.path) \in DOMAIN fs
       /\ inodes[fs[LogOf(c.path)]] = expected

\* C2: when OUTPUT exists and --overwrite is not given, inventory prints the
\* error and does nothing else: no collaborator and no log_errors call, and no
\* file (the output, an existing error.log) is changed, whatever the format
\* and the output name.
C2_Step ==
  (pc = "parsed" /\ cmd'.name = "inventory"
     /\ cmd'.output \in DOMAIN fs /\ ~cmd'.overwrite)
  => /\ OnlyPrinted({echo("ERROR: <output> file already exists.")})
     /\ pc' = "done"

C2_RefusesOverwrite == [][C2_Step]_vars

C2_Witness ==
  /\ pc = "done"
  /\ cmd.name = "inventory"
  /\ ~cmd.overwrite
  /\ cmd.format = "json"
  /\ cmd.output = OUT_CSV
  /\ calls = <<>>
  /\ OUT_CSV \in DOMAIN fs /\ inodes[fs[OUT_CSV]] = OLD
  /\ OLD_LOG \in DOMAIN fs /\ inodes[fs[OLD_LOG]] = OLD
  /\ echo("ERROR: <output> file already exists.") \in Range(stdout)

\* C3: inventory rejects a format outside {csv, json}, and a non-json format
\* with an OUTPUT not ending in ".csv", by printing an error and doing nothing
\* else; with format json the OUTPUT name is not constrained; every run that
\* reaches collect_inventory has a supported format and (json or a .csv name).
C3_BadArgs(c) ==
  \/ c.format \notin {"csv", "json"}
  \/ (c.format # "json" /\ ~(Len(c.output) >= 4
                              /\ SubSeq(c.output, Len(c.output) - 3, Len(c.output))
                                   = <<".", "c", "s", "v">>))

C3_Step ==
  /\ (pc = "parsed" /\ cmd'.name = "inventory" /\ C3_BadArgs(cmd'))
       => OnlyPrinted(InventoryErrorLines)
  /\ (pc = "parsed" /\ cmd'.name = "inventory" /\ cmd'.format = "json"
        /\ (cmd'.output \notin DOMAIN fs \/ cmd'.overwrite)
        /\ dirname(cmd'.output) \in Directories)
       => \E i \in DOMAIN calls' : calls'[i].fn = "collect_inventory"

C3_State ==
  (cmd.name = "inventory" /\ CallsOf("collect_inventory") # {}) => ~C3_BadArgs(cmd)

C3_RejectsBadFormatAndName == []C3_State /\ [][C3_Step]_vars

C3_Witness ==
  /\ pc = "done"
  /\ cmd.name = "inventory"
  /\ cmd.format = "csv"
  /\ cmd.output = OUT_NODOT
  /\ cmd.overwrite
  /\ calls = <<>>
  /\ echo("ERROR: <output> must be a CSV file ending with .csv") \in Range(stdout)

\* C4: gen rejects a LOCATION ending neither with ".csv" nor with ".json" by
\* printing an error and doing nothing else (no generate, verify_license_files,
\* copy_files or log_errors call, no file written); generate is called only
\* for a LOCATION ending with ".csv" or ".json".
C4_Supported(location) ==
  \E ext \in {<<".", "c", "s", "v">>, <<".", "j", "s", "o", "n">>} :
    /\ Len(location) >= Len(ext)
    /\ \A k \in 1..Len(ext) : location[Len(location) - Len(ext) + k] = ext[k]

C4_Step ==
  (pc = "parsed" /\ cmd'.name = "gen" /\ ~C4_Supported(cmd'.location))
    => OnlyPrinted({GenErrorLine})

C4_State ==
  \A i \in CallsOf("generate") : C4_Supported(calls[i].path)

C4_RejectsOtherInputs == []C4_State /\ [][C4_Step]_vars

C4_Witness ==
  /\ pc = "done"
  /\ cmd.name = "gen"
  /\ cmd.location = IN_UCSV
  /\ calls = <<>>
  /\ GenErrorLine \in Range(stdout)

\* C5: inventory, gen and attrib all filter the reported errors with the -v
\* level: after a run with -v L, no error with severity < L has been printed
\* or written to error.log.
C5_FiltersByVerbosity ==
  (pc = "done" /\ cmd.name \in {"inventory", "gen", "attrib"}) =>
    \A i \in CallsOf("log_errors") :
      \A e \in Range(calls[i].errors) :
        e[1] < verbosity_num =>
          /\ <<severities[e[1]], ": ", e[2]>> \notin Range(PrintedSince(calls[i].at))
          /\ <<severities[e[1]], ": ", e[2]>> \notin Range(inodes[fs[LogOf(calls[i].path)]])

\* C6: after any sequence of log_errors calls, each directory's error.log holds
\* exactly the messages of the most recent call that targeted that directory
\* (the lines that call wrote to its log): nothing of an earlier call survives
\* and a call for another directory adds nothing.
C6_Written(c) ==
  Format(SelectSeq(c.errors, LAMBDA e : e[1] >= c.level /\ e[1] >= WARNING))

C6_LogIsOfLatestCall ==
  pc = "lib" =>
    \A d \in {P_d, P_e} :
      LET I == {i \in DOMAIN calls : calls[i].path = d}
      IN I # {} =>
           LET last == CHOOSE i \in I : \A j \in I : j <= i
           IN /\ LogOf(d) \in DOMAIN fs
              /\ inodes[fs[LogOf(d)]] = C6_Written(calls[last])

\* C7: in every run of inventory, gen and attrib that passes validation,
\* log_errors is called exactly once, after every collaborator call, and every
\* error a collaborator returned is in the list handed to it.
C7_AllErrorsReported ==
  (pc = "done" /\ cmd.name \in {"inventory", "gen", "attrib"} /\ calls # <<>>) =>
    /\ CallsOf("log_errors") = {Len(calls)}
    /\ \A i \in 1..(Len(calls) - 1) :
         Range(calls[i].errors) \subseteq Range(calls[Len(calls)].errors)

\* C8: in inventory and attrib, a LOCATION ending with ".zip" in any letter
\* case is extracted exactly once, before collect_inventory, which receives the
\* extracted location; any other LOCATION is never extracted and reaches
\* collect_inventory unchanged; inventory extracts only after its argument
\* validation has passed.
C8_ZipName(location) ==
  /\ Len(location) >= 4
  /\ location[Len(location) - 3] = "."
  /\ location[Len(location) - 2] \in {"z", "Z"}
  /\ location[Len(location) - 1] \in {"i", "I"}
  /\ location[Len(location)] \in {"p", "P"}

C8_State ==
  (pc = "done" /\ cmd.name \in {"inventory", "attrib"}) =>
    LET Z == CallsOf("extract_zip")
        C == CallsOf("collect_inventory")
    IN /\ cmd.name = "attrib" => C # {}
       /\ C = {} => Z = {}
       /\ C # {} =>
            /\ Cardinality(C) = 1
            /\ IF C8_ZipName(cmd.location)
               THEN /\ Cardinality(Z) = 1
                    /\ \A z \in Z, c \in C :
                         /\ z < c
                         /\ calls[z].path = cmd.location
                         /\ calls[c].path = calls[z].ret
               ELSE /\ Z = {}
                    /\ \A c \in C : calls[c].path = cmd.location

C8_Step ==
  (pc = "parsed" /\ cmd'.name = "inventory"
     /\ \/ (cmd'.output \in DOMAIN fs /\ ~cmd'.overwrite)
        \/ dirname(cmd'.output) \notin Directories
        \/ C3_BadArgs(cmd'))
  => calls' = calls

C8_ZipExtractedFirst == []C8_State /\ [][C8_Step]_vars

C8_Witness ==
  /\ pc = "done"
  /\ cmd.name = "inventory"
  /\ cmd.location = LOC_UZIP
  /\ Len(calls) >= 2
  /\ calls[1].fn = "extract_zip"
  /\ calls[2].fn = "collect_inventory"
  /\ calls[2].path = calls[1].ret

\* C9: with -q set nothing is written to stdout, in every run of every
\* subcommand.
C9_QuietPrintsNothing ==
  (no_stdout /\ pc \in {"done", "raised"}) => stdout = <<>>

\* C10: the summary line of gen gives the length of the abouts returned by
\* generate and the number of errors of severity CRITICAL, ERROR or WARNING
\* among the errors of generate and of verify_license_files (called when
\* --license_text_location is given); INFO and NOTSET are not counted and the
\* -v level plays no part.
C10_Counted(errors) ==
  Cardinality({i \in DOMAIN errors : errors[i][1] \in {CRITICAL, ERROR, WARNING}})

C10_SummaryCounts ==
  (pc = "done" /\ cmd.name = "gen" /\ calls # <<>>) =>
    LET G == CallsOf("generate")
        V == CallsOf("verify_license_files")
    IN /\ Cardinality(G) = 1
       /\ (V # {}) = (cmd.license_text_location # <<>>)
       /\ Cardinality(V) <= 1
       /\ \A g \in G :
            LET lee == C10_Counted(calls[g].errors)
                         + (IF V = {} THEN 0
                            ELSE C10_Counted(calls[CHOOSE v \in V : TRUE].errors))
                line == <<"Generated ", ToString(Len(calls[g].abouts)),
                          " ABOUT files with ", ToString(lee), " errors and/or warning">>
            IN /\ stdout[3] = line
               /\ \A k \in DOMAIN stdout :
                    (Len(stdout[k]) = 5 /\ stdout[k][1] = "Generated ") => k = 3

C10_Witness ==
  /\ pc = "done"
  /\ cmd.name = "gen"
  /\ verbosity_num = CRITICAL
  /\ \E g \in CallsOf("generate"), v \in CallsOf("verify_license_files") :
       /\ calls[g].errors = <<<<INFO, "generate">>, <<WARNING, "generate">>>>
       /\ calls[v].errors = <<<<ERROR, "license">>>>
       /\ Len(calls[g].abouts) = 1
  /\ stdout[3] = <<"Generated ", "1", " ABOUT files with ", "2", " errors and/or warning">>

====
